---- MODULE Spec2Model ----
(***************************************************************************)
(* Model of generate-sidecar-tool: the FQN decomposers, the call graph     *)
(* builder (buildGraph) and the policy generator (generateSettings) as     *)
(* driven by main's RunE.                                                  *)
(*                                                                         *)
(* Strings are sequences of atoms.  The atom "/" is the separator          *)
(* character; every other atom is an indivisible piece of text that holds  *)
(* no "/".  The empty string is <<>>.                                      *)
(***************************************************************************)
EXTENDS Naturals, Integers, Sequences, FiniteSets, TLC

VARIABLES
    pc,              \* position of main's RunE
    top,             \* top.Calls: the topology call edges
    ti,              \* index of the next edge of top.Calls in buildGraph
    graph,           \* the *Graph built by buildGraph (isNil: nil pointer)
    lookups,         \* services handed to client.LookupTrafficGroup, in order
    gi,              \* index of the next call of graph.Calls in generateSettings
    seenNs,          \* generateSettings: sourceNS => list of seen dest namespaces
    sidecars,        \* generateSettings: namespace => Sidecar
    trafficSettings, \* generateSettings: group FQN => TrafficSetting
    trafficMeta,     \* generateSettings: group FQN => ObjectMeta
    fetches,         \* calls made to client.GetTrafficSettings, with their outcome
    results,         \* first return value of generateSettings
    err,             \* second return value of generateSettings
    output,          \* what RunE hands to printers.OutputResponse
    fpc,             \* position of the decomposer harness
    fqnIn,           \* the string handed to the decomposers
    fqnArgs,         \* <<O, T, W, G>> when fqnIn was composed from them, else <<>>
    metaOut,         \* outcome of bridgedModeMeta(fqnIn)
    annOut,          \* outcome of directModeAnnotations(fqnIn)
    nsOut            \* outcome of parseNamespace on a service deployed at fqnIn

pipeVars == <<pc, top, ti, graph, lookups, gi, seenNs, sidecars, trafficSettings,
              trafficMeta, fetches, results, err, output>>
fqnVars == <<fpc, fqnIn, fqnArgs, metaOut, annOut, nsOut>>
vars == <<pc, top, ti, graph, lookups, gi, seenNs, sidecars, trafficSettings,
          trafficMeta, fetches, results, err, output,
          fpc, fqnIn, fqnArgs, metaOut, annOut, nsOut>>

----------------------------------------------------------------------------
(* Bounds *)

MaxEdges == 2
MaxFqnLen == 3
MaxValLen == 1

----------------------------------------------------------------------------
(* Strings *)

Slash == "/"

EmptyStr == <<>>

EmptyMap == [k \in {} |-> <<>>]

MapPut(m, k, v) == [x \in (DOMAIN m) \cup {k} |-> IF x = k THEN v ELSE m[x]]

Contains(s, e) == \E i \in 1..Len(s) : s[i] = e

Count(s, e) == Cardinality({i \in 1..Len(s) : s[i] = e})

HasSlash(s) == Contains(s, Slash)

FirstSlash(s) == CHOOSE i \in 1..Len(s) : s[i] = Slash /\ \A j \in 1..(i-1) : s[j] # Slash

\* strings.Split(s, "/")
RECURSIVE Split(_)
Split(s) ==
    IF ~HasSlash(s) THEN <<s>>
    ELSE LET i == FirstSlash(s)
         IN <<SubSeq(s, 1, i - 1)>> \o Split(SubSeq(s, i + 1, Len(s)))

\* a + "/" + b
Join(a, b) == a \o <<Slash>> \o b

RECURSIVE JoinAll(_)
JoinAll(parts) ==
    IF Len(parts) = 0 THEN EmptyStr
    ELSE IF Len(parts) = 1 THEN parts[1]
    ELSE Join(parts[1], JoinAll(Tail(parts)))

StrsUpTo(atoms, n) == UNION {[1..k -> atoms] : k \in 0..n}

----------------------------------------------------------------------------
(* FQN decomposition *)

KeyOrganizations == <<"organizations">>
KeyTenants == <<"tenants">>
KeyWorkspaces == <<"workspaces">>
KeyTrafficGroups == <<"trafficgroups">>
KeyNamespaces == <<"namespaces">>

AnnOrganization == <<"tsb.tetrate.io", Slash, "organization">>
AnnTenant == <<"tsb.tetrate.io", Slash, "tenant">>
AnnWorkspace == <<"tsb.tetrate.io", Slash, "workspace">>
AnnTrafficGroup == <<"tsb.tetrate.io", Slash, "trafficGroup">>

\* &typesv2.ObjectMeta{}; isNil marks a nil *ObjectMeta
EmptyMeta ==
    [isNil |-> FALSE, Organization |-> EmptyStr, Tenant |-> EmptyStr,
     Workspace |-> EmptyStr, Group |-> EmptyStr, Name |-> EmptyStr,
     Namespace |-> EmptyStr, Annotations |-> EmptyMap]

NilMeta == [EmptyMeta EXCEPT !.isNil = TRUE]

\* outcome of a call: a value, or a run-time panic (index out of range,
\* nil pointer dereference)
Returned(v) == [panic |-> FALSE, value |-> v]
Panicked(v) == [panic |-> TRUE, value |-> v]

\* the loop of bridgedModeMeta; parts[i] is fqnParts[i-1] of the source
RECURSIVE bridgedModeMetaLoop(_, _, _)
bridgedModeMetaLoop(parts, i, meta) ==
    IF i > Len(parts) THEN Returned(meta)
    ELSE LET key == parts[i]
         IN IF key \in {KeyOrganizations, KeyTenants, KeyWorkspaces, KeyTrafficGroups}
            THEN IF i + 1 > Len(parts)
                 THEN Panicked(meta)
                 ELSE bridgedModeMetaLoop(parts, i + 2,
                        CASE key = KeyOrganizations -> [meta EXCEPT !.Organization = parts[i+1]]
                          [] key = KeyTenants -> [meta EXCEPT !.Tenant = parts[i+1]]
                          [] key = KeyWorkspaces -> [meta EXCEPT !.Workspace = parts[i+1]]
                          [] key = KeyTrafficGroups -> [meta EXCEPT !.Group = parts[i+1]])
            ELSE bridgedModeMetaLoop(parts, i + 2, meta)

\* the loop with the tenant value stored in the workspace field
RECURSIVE bridgedModeMetaLoopSwapped(_, _, _)
bridgedModeMetaLoopSwapped(parts, i, meta) ==
    IF i > Len(parts) THEN Returned(meta)
    ELSE LET key == parts[i]
         IN IF key \in {KeyOrganizations, KeyTenants, KeyWorkspaces, KeyTrafficGroups}
            THEN IF i + 1 > Len(parts)
                 THEN Panicked(meta)
                 ELSE bridgedModeMetaLoopSwapped(parts, i + 2,
                        CASE key = KeyOrganizations -> [meta EXCEPT !.Organization = parts[i+1]]
                          [] key = KeyTenants -> [meta EXCEPT !.Workspace = parts[i+1]]
                          [] key = KeyWorkspaces -> [meta EXCEPT !.Workspace = parts[i+1]]
                          [] key = KeyTrafficGroups -> [meta EXCEPT !.Group = parts[i+1]])
            ELSE bridgedModeMetaLoopSwapped(parts, i + 2, meta)

bridgedModeMetaSwapped(fqn) == bridgedModeMetaLoopSwapped(Split(fqn), 1, EmptyMeta)

bridgedModeMeta(fqn) == bridgedModeMetaLoop(Split(fqn), 1, EmptyMeta)

RECURSIVE directModeAnnotationsLoop(_, _, _)
directModeAnnotationsLoop(parts, i, annotations) ==
    IF i > Len(parts) THEN Returned(annotations)
    ELSE LET key == parts[i]
         IN IF key \in {KeyOrganizations, KeyTenants, KeyWorkspaces, KeyTrafficGroups}
            THEN IF i + 1 > Len(parts)
                 THEN Panicked(annotations)
                 ELSE directModeAnnotationsLoop(parts, i + 2,
                        CASE key = KeyOrganizations -> MapPut(annotations, AnnOrganization, parts[i+1])
                          [] key = KeyTenants -> MapPut(annotations, AnnTenant, parts[i+1])
                          [] key = KeyWorkspaces -> MapPut(annotations, AnnWorkspace, parts[i+1])
                          [] key = KeyTrafficGroups -> MapPut(annotations, AnnTrafficGroup, parts[i+1]))
            ELSE directModeAnnotationsLoop(parts, i + 2, annotations)

directModeAnnotations(fqn) == directModeAnnotationsLoop(Split(fqn), 1, EmptyMap)

\* the inner loop of parseNamespace over one deployment FQN
RECURSIVE parseNamespaceLoop(_, _, _)
parseNamespaceLoop(parts, i, res) ==
    IF i > Len(parts) THEN Returned(res)
    ELSE IF parts[i] = KeyNamespaces
         THEN IF i + 1 > Len(parts)
              THEN Panicked(res)
              ELSE parseNamespaceLoop(parts, i + 2, Append(res, parts[i+1]))
         ELSE parseNamespaceLoop(parts, i + 2, res)

\* the outer loop of parseNamespace over service.ServiceDeployments
RECURSIVE parseNamespaceDeps(_, _, _)
parseNamespaceDeps(deps, d, res) ==
    IF d > Len(deps) THEN Returned(res)
    ELSE LET r == parseNamespaceLoop(Split(deps[d].FQN), 1, res)
         IN IF r.panic THEN r ELSE parseNamespaceDeps(deps, d + 1, r.value)

parseNamespace(service) == parseNamespaceDeps(service.ServiceDeployments, 1, <<>>)

----------------------------------------------------------------------------
(* The inputs of one run: the service list, the topology, the remote API *)

Star == "*"

\* destNs + "/*"
HostOf(ns) == ns \o <<Slash, Star>>

NsA == <<"a">>
NsB == <<"b">>
NsIstioSystem == <<"istio-system">>
NsXcpMulticluster == <<"xcp-multicluster">>

\* []string{"istio-system/*", "xcp-multicluster/*"}
BaseHosts == <<HostOf(NsIstioSystem), HostOf(NsXcpMulticluster)>>

DeploymentFQN(cluster, ns, name) ==
    JoinAll(<<KeyOrganizations, <<"o">>, <<"clusters">>, cluster,
              KeyNamespaces, ns, <<"services">>, name>>)

\* the result of client.GetServices(): svcA runs in namespace a of two
\* clusters, svcB in namespace b, svcC in namespace a, svcI in istio-system
Services ==
    << [FQN |-> "svcA", Metrics |-> <<"kA">>,
        ServiceDeployments |-> << [FQN |-> DeploymentFQN(<<"c1">>, NsA, <<"svcA">>)],
                                  [FQN |-> DeploymentFQN(<<"c2">>, NsA, <<"svcA">>)] >>],
       [FQN |-> "svcB", Metrics |-> <<"kB">>,
        ServiceDeployments |-> << [FQN |-> DeploymentFQN(<<"c1">>, NsB, <<"svcB">>)] >>],
       [FQN |-> "svcC", Metrics |-> <<"kC">>,
        ServiceDeployments |-> << [FQN |-> DeploymentFQN(<<"c1">>, NsA, <<"svcC">>)] >>],
       [FQN |-> "svcI", Metrics |-> <<"kI">>,
        ServiceDeployments |-> << [FQN |-> DeploymentFQN(<<"c1">>, NsIstioSystem, <<"svcI">>)] >>] >>

\* top.Nodes: n4 carries an aggregation key no service has
TopNodes ==
    << [ID |-> "n1", AggregationKey |-> "kA"],
       [ID |-> "n2", AggregationKey |-> "kB"],
       [ID |-> "n3", AggregationKey |-> "kI"],
       [ID |-> "n4", AggregationKey |-> "kX"],
       [ID |-> "n5", AggregationKey |-> "kC"] >>

\* the call edges a topology is drawn from
TopEdges ==
    { [Source |-> "n1", Target |-> "n2"],
      [Source |-> "n1", Target |-> "n3"],
      [Source |-> "n2", Target |-> "n1"],
      [Source |-> "n5", Target |-> "n2"],
      [Source |-> "n1", Target |-> "n4"],
      [Source |-> "n4", Target |-> "n2"] }

GroupFQN(g) ==
    JoinAll(<<KeyOrganizations, <<"o">>, KeyTenants, <<"t">>,
              KeyWorkspaces, <<"w">>, KeyTrafficGroups, g>>)

\* a *TrafficGroup; isNil marks the nil pointer
NilTrafficGroup == [isNil |-> TRUE, ConfigMode |-> "", FQN |-> EmptyStr]

TrafficGroups ==
    { [isNil |-> FALSE, ConfigMode |-> "DIRECT", FQN |-> GroupFQN(<<"g1">>)],
      [isNil |-> FALSE, ConfigMode |-> "BRIDGED", FQN |-> GroupFQN(<<"g2">>)],
      [isNil |-> FALSE, ConfigMode |-> "BRIDGED", FQN |-> GroupFQN(<<"g3">>)] }

\* what client.LookupTrafficGroup may return without an error
LookupResults == TrafficGroups \cup {NilTrafficGroup}

\* what client.LookupTrafficGroup may return for a service, given the calls
\* built so far: the group of a service does not change during the run
LookupAnswers(service, calls) ==
    IF \E i \in 1..Len(calls) : calls[i].SourceService = service
    THEN {calls[i].SourceTrafficGroup : i \in {j \in 1..Len(calls) : calls[j].SourceService = service}}
    ELSE LookupResults

\* a *trafficv2.ReachabilitySettings; isNil marks the nil pointer
NilReachability == [isNil |-> TRUE, Mode |-> "UNSET", Hosts |-> <<>>]

\* what client.GetTrafficSettings may answer
FetchKinds == {"err", "none", "custom", "global", "noreach"}

\* the TrafficSetting that exists remotely for the group, by kind of answer
RemoteSetting(groupFQN, kind) ==
    [Fqn |-> Join(Join(groupFQN, <<"settings">>), <<"default">>),
     Reachability |->
        CASE kind = "custom" -> [isNil |-> FALSE, Mode |-> "CUSTOM", Hosts |-> <<HostOf(NsB)>>]
          [] kind = "global" -> [isNil |-> FALSE, Mode |-> "GLOBAL", Hosts |-> <<>>]
          [] OTHER -> NilReachability]

----------------------------------------------------------------------------
(* buildGraph *)

NilGraph == [isNil |-> TRUE, Calls |-> <<>>]

\* servicesByTopKey: aggregation key => service, the last service of the
\* list that carries the key wins
servicesByTopKey ==
    [key \in UNION {{Services[i].Metrics[m] : m \in 1..Len(Services[i].Metrics)} :
                       i \in 1..Len(Services)} |->
        LET holders == {i \in 1..Len(Services) : Contains(Services[i].Metrics, key)}
            last == CHOOSE i \in holders : \A j \in holders : j <= i
        IN Services[last]]

idToTopKey ==
    [id \in {TopNodes[i].ID : i \in 1..Len(TopNodes)} |->
        LET holders == {i \in 1..Len(TopNodes) : TopNodes[i].ID = id}
            last == CHOOSE i \in holders : \A j \in holders : j <= i
        IN TopNodes[last].AggregationKey]

servicesByID ==
    [id \in {i \in DOMAIN idToTopKey : idToTopKey[i] \in DOMAIN servicesByTopKey} |->
        servicesByTopKey[idToTopKey[id]]]

\* both "servicesByID[...]; if !ok" tests of the loop body pass
Resolves(traffic) ==
    traffic.Source \in DOMAIN servicesByID /\ traffic.Target \in DOMAIN servicesByID

\* the Call assembled for a resolved edge
NewCall(traffic, tg) ==
    LET source == servicesByID[traffic.Source]
        target == servicesByID[traffic.Target]
    IN [SourceService |-> source.FQN,
        TargetService |-> target.FQN,
        SourceNamespaces |-> parseNamespace(source).value,
        TargetNamespaces |-> parseNamespace(target).value,
        SourceTrafficGroup |-> tg]

\* an unresolved edge that ends the build
SkipEdgeAbort(g) == NilGraph

\* the "continue" of an unresolved edge: the graph is left as it is
SkipEdge(g) == g

\* an append that leaves out the calls without traffic group
AppendCallGoverned(calls, call) ==
    IF call.SourceTrafficGroup.isNil THEN calls ELSE Append(calls, call)

\* graph.Calls = append(graph.Calls, call)
AppendCall(calls, call) == Append(calls, call)

----------------------------------------------------------------------------
(* generateSettings *)

\* the Sidecar created on the first encounter of a source namespace
NewSidecar(ns, annotations) ==
    [Name |-> <<"reachability-sidecar">>, Namespace |-> ns,
     Annotations |-> annotations, Hosts |-> BaseHosts]

\* fqn.Tctl{}.FromMeta(api.TrafficAPI, api.TrafficSettingKind, meta)
FromMeta(meta) ==
    JoinAll(<<KeyOrganizations, meta.Organization, KeyTenants, meta.Tenant,
              KeyWorkspaces, meta.Workspace, KeyTrafficGroups, meta.Group,
              <<"settings">>, meta.Name>>)

\* a synthesized TrafficSetting that lacks a base host
NewTrafficSettingOneBase(meta) ==
    [Fqn |-> FromMeta(meta),
     Reachability |-> [isNil |-> FALSE, Mode |-> "UNSET", Hosts |-> <<HostOf(NsIstioSystem)>>]]

\* the TrafficSetting synthesized when the group has none
NewTrafficSetting(meta) ==
    [Fqn |-> FromMeta(meta),
     Reachability |-> [isNil |-> FALSE, Mode |-> "UNSET", Hosts |-> BaseHosts]]

\* t.GetReachability().GetHosts(): nil-safe
GetHosts(t) == IF t.Reachability.isNil THEN <<>> ELSE t.Reachability.Hosts

\* "if _, ok := seenNs[ns]; !ok { seenNs[ns] = make([]string, 0) }"
InitSeen(seen, ns) == IF ns \in DOMAIN seen THEN seen ELSE MapPut(seen, ns, <<>>)

\* a test that never finds the destination seen
AlreadySeenNever(seen, ns, destNs) == FALSE

\* "if slices.Contains(seenNs[ns], destNs) { continue }"
AlreadySeen(seen, ns, destNs) == Contains(seen[ns], destNs)

\* the loop over call.TargetNamespaces of generateDirectModeSidecars
RECURSIVE directDestLoop(_, _, _, _)
directDestLoop(targets, j, ns, st) ==
    IF j > Len(targets) THEN st
    ELSE LET destNs == targets[j]
         IN IF AlreadySeen(st.seenNs, ns, destNs)
            THEN directDestLoop(targets, j + 1, ns, st)
            ELSE directDestLoop(targets, j + 1, ns,
                    [seenNs |-> MapPut(st.seenNs, ns, Append(st.seenNs[ns], destNs)),
                     sidecars |-> MapPut(st.sidecars, ns,
                                    [st.sidecars[ns] EXCEPT !.Hosts = Append(@, HostOf(destNs))])])

\* the loop over call.SourceNamespaces of generateDirectModeSidecars
RECURSIVE directSrcLoop(_, _, _, _)
directSrcLoop(call, k, st, annotations) ==
    IF k > Len(call.SourceNamespaces) THEN st
    ELSE LET ns == call.SourceNamespaces[k]
             seen1 == InitSeen(st.seenNs, ns)
             sc1 == IF ns \in DOMAIN st.sidecars THEN st.sidecars
                    ELSE MapPut(st.sidecars, ns, NewSidecar(ns, annotations))
         IN directSrcLoop(call, k + 1,
                directDestLoop(call.TargetNamespaces, 1, ns,
                               [seenNs |-> seen1, sidecars |-> sc1]),
                annotations)

generateDirectModeSidecars(call, seen, scs, annotations) ==
    directSrcLoop(call, 1, [seenNs |-> seen, sidecars |-> scs], annotations)

\* the loop over call.TargetNamespaces of generateBridgedModeTrafficSettings;
\* st.panic: Reachability.Hosts assigned through a nil Reachability
RECURSIVE bridgedDestLoop(_, _, _, _, _)
bridgedDestLoop(targets, j, ns, groupFQN, st) ==
    IF j > Len(targets) THEN st
    ELSE LET destNs == targets[j]
         IN IF AlreadySeen(st.seenNs, ns, destNs)
            THEN bridgedDestLoop(targets, j + 1, ns, groupFQN, st)
            ELSE LET seen1 == MapPut(st.seenNs, ns, Append(st.seenNs[ns], destNs))
                     t == st.trafficSettings[groupFQN]
                 IN IF Contains(GetHosts(t), HostOf(destNs))
                    THEN bridgedDestLoop(targets, j + 1, ns, groupFQN,
                                         [st EXCEPT !.seenNs = seen1])
                    ELSE IF t.Reachability.isNil
                    THEN [st EXCEPT !.seenNs = seen1, !.panic = TRUE]
                    ELSE bridgedDestLoop(targets, j + 1, ns, groupFQN,
                            [st EXCEPT !.seenNs = seen1,
                                       !.trafficSettings = MapPut(@, groupFQN,
                                            [t EXCEPT !.Reachability.Hosts =
                                                Append(GetHosts(t), HostOf(destNs))])])

\* a test that fetches on every encounter of the group
NeedsFetchAlways(ts, groupFQN) == TRUE

\* "if _, ok := trafficSettings[call.SourceTrafficGroup.FQN]; !ok"
NeedsFetch(ts, groupFQN) == groupFQN \notin DOMAIN ts

\* the loop over call.SourceNamespaces of generateBridgedModeTrafficSettings;
\* answer is what client.GetTrafficSettings gives if it is called
RECURSIVE bridgedSrcLoop(_, _, _, _, _)
bridgedSrcLoop(call, k, st, meta, answer) ==
    IF k > Len(call.SourceNamespaces) THEN st
    ELSE LET ns == call.SourceNamespaces[k]
             groupFQN == call.SourceTrafficGroup.FQN
             st1 == [st EXCEPT !.seenNs = InitSeen(st.seenNs, ns)]
             fetch == NeedsFetch(st1.trafficSettings, groupFQN)
             st2 == IF fetch
                    THEN [st1 EXCEPT !.fetches = Append(@, [fqn |-> groupFQN, kind |-> answer])]
                    ELSE st1
         IN IF fetch /\ answer = "err"
            THEN [st2 EXCEPT !.err = TRUE]
            ELSE LET settings == IF answer = "none" THEN NewTrafficSetting(meta)
                                 ELSE RemoteSetting(groupFQN, answer)
                     st3 == IF fetch
                            THEN [st2 EXCEPT !.trafficSettings = MapPut(@, groupFQN, settings)]
                            ELSE st2
                     st4 == bridgedDestLoop(call.TargetNamespaces, 1, ns, groupFQN, st3)
                 IN IF st4.panic THEN st4
                    ELSE bridgedSrcLoop(call, k + 1, st4, meta, answer)

generateBridgedModeTrafficSettings(answer, call, seen, ts, fs, meta) ==
    bridgedSrcLoop(call, 1,
        [seenNs |-> seen, trafficSettings |-> ts, fetches |-> fs,
         err |-> FALSE, panic |-> FALSE], meta, answer)

\* "if call.SourceTrafficGroup == nil { continue }"
IsUngoverned(call) == call.SourceTrafficGroup.isNil

\* the switch with its cases exchanged
IsDirectInverted(call) == call.SourceTrafficGroup.ConfigMode # "DIRECT"

\* the case "DIRECT" of the switch on ConfigMode
IsDirect(call) == call.SourceTrafficGroup.ConfigMode = "DIRECT"

\* *[]*typesv2.Object; isNil marks the nil slice
NilResults == [isNil |-> TRUE, items |-> <<>>]

\* the Object built from a Sidecar
SidecarObject(s) ==
    [Kind |-> "Sidecar",
     Metadata |-> [EmptyMeta EXCEPT !.Annotations = s.Annotations,
                                    !.Namespace = s.Namespace, !.Name = s.Name],
     Spec |-> [Hosts |-> s.Hosts]]

\* the Object built from a TrafficSetting: Metadata is trafficMeta[t.GetFqn()]
TrafficSettingObject(t, tmeta) ==
    [Kind |-> "TrafficSetting",
     Metadata |-> IF t.Fqn \in DOMAIN tmeta THEN tmeta[t.Fqn] ELSE NilMeta,
     Spec |-> t]

\* the orders in which a range over a map may visit its keys
Orders(S) == {o \in [1..Cardinality(S) -> S] : \A i, j \in DOMAIN o : o[i] = o[j] => i = j}

\* the objects accumulated so far, returned with the error
ResultsOnErrorPartial(scs, ts, tmeta) ==
    LET so == CHOOSE o \in Orders(DOMAIN scs) : TRUE
        tso == CHOOSE o \in Orders(DOMAIN ts) : TRUE
    IN [isNil |-> FALSE,
        items |-> [i \in 1..Len(so) |-> SidecarObject(scs[so[i]])]
                  \o [i \in 1..Len(tso) |-> TrafficSettingObject(ts[tso[i]], tmeta)]]

\* what generateSettings returns with the error of a failed fetch: nil
ResultsOnError(scs, ts, tmeta) == NilResults

----------------------------------------------------------------------------
(* main's RunE: buildGraph, generateSettings, output *)

NotRun(v) == [done |-> FALSE, panic |-> FALSE, value |-> v]

FqnIdle ==
    /\ fpc = "idle"
    /\ fqnIn = EmptyStr
    /\ fqnArgs = <<>>
    /\ metaOut = NotRun(EmptyMeta)
    /\ annOut = NotRun(EmptyMap)
    /\ nsOut = NotRun(<<>>)

Init ==
    /\ pc = "build"
    /\ top \in StrsUpTo(TopEdges, MaxEdges)
    /\ ti = 1
    /\ graph = [isNil |-> FALSE, Calls |-> <<>>]
    /\ lookups = <<>>
    /\ gi = 1
    /\ seenNs = EmptyMap
    /\ sidecars = EmptyMap
    /\ trafficSettings = EmptyMap
    /\ trafficMeta = EmptyMap
    /\ fetches = <<>>
    /\ results = NilResults
    /\ err = ""
    /\ output = <<>>
    /\ FqnIdle

genVars == <<gi, seenNs, sidecars, trafficSettings, trafficMeta, fetches, results, err, output>>

\* buildGraph, loop body: an edge whose source or target is not in servicesByID
BuildSkipEdge ==
    /\ pc = "build"
    /\ ti <= Len(top)
    /\ ~Resolves(top[ti])
    /\ graph' = SkipEdge(graph)
    /\ ti' = ti + 1
    /\ UNCHANGED <<pc, top, lookups, genVars, fqnVars>>

\* buildGraph, loop body: LookupTrafficGroup fails, buildGraph returns nil and
\* RunE goes on to generateSettings
BuildLookupError ==
    /\ pc = "build"
    /\ ti <= Len(top)
    /\ Resolves(top[ti])
    /\ lookups' = Append(lookups, [service |-> servicesByID[top[ti].Source].FQN,
                                    answer |-> "err"])
    /\ graph' = NilGraph
    /\ pc' = "generate"
    /\ UNCHANGED <<top, ti, genVars, fqnVars>>

\* buildGraph, loop body: LookupTrafficGroup answers a group or nil
BuildAppendCall ==
    /\ pc = "build"
    /\ ti <= Len(top)
    /\ Resolves(top[ti])
    /\ \E tg \in LookupAnswers(servicesByID[top[ti].Source].FQN, graph.Calls) :
          /\ graph' = [graph EXCEPT !.Calls = AppendCall(@, NewCall(top[ti], tg))]
          /\ lookups' = Append(lookups, [service |-> servicesByID[top[ti].Source].FQN,
                                          answer |-> IF tg.isNil THEN "nil" ELSE "group"])
    /\ ti' = ti + 1
    /\ UNCHANGED <<pc, top, genVars, fqnVars>>

\* buildGraph returns the graph and RunE calls generateSettings
BuildReturn ==
    /\ pc = "build"
    /\ ti > Len(top)
    /\ pc' = "generate"
    /\ UNCHANGED <<top, ti, graph, lookups, genVars, fqnVars>>

\* generateSettings on the nil graph: graph.Calls dereferences nil
GenNilGraph ==
    /\ pc = "generate"
    /\ graph.isNil
    /\ pc' = "panic"
    /\ UNCHANGED <<top, ti, graph, lookups, genVars, fqnVars>>

\* generateSettings, loop body: a call without traffic group
GenSkipCall ==
    /\ pc = "generate"
    /\ ~graph.isNil
    /\ gi <= Len(graph.Calls)
    /\ IsUngoverned(graph.Calls[gi])
    /\ gi' = gi + 1
    /\ UNCHANGED <<pc, top, ti, graph, lookups, seenNs, sidecars, trafficSettings,
                   trafficMeta, fetches, results, err, output, fqnVars>>

\* generateSettings, loop body: case "DIRECT"
GenDirect ==
    /\ pc = "generate"
    /\ ~graph.isNil
    /\ gi <= Len(graph.Calls)
    /\ LET call == graph.Calls[gi]
           ann == directModeAnnotations(call.SourceTrafficGroup.FQN)
           r == generateDirectModeSidecars(call, seenNs, sidecars, ann.value)
       IN /\ ~IsUngoverned(call)
          /\ IsDirect(call)
          /\ IF ann.panic
             THEN pc' = "panic" /\ UNCHANGED <<gi, seenNs, sidecars>>
             ELSE /\ seenNs' = r.seenNs
                  /\ sidecars' = r.sidecars
                  /\ gi' = gi + 1
                  /\ pc' = pc
    /\ UNCHANGED <<top, ti, graph, lookups, trafficSettings, trafficMeta, fetches,
                   results, err, output, fqnVars>>

\* generateSettings, loop body: the default case
GenBridged ==
    /\ pc = "generate"
    /\ ~graph.isNil
    /\ gi <= Len(graph.Calls)
    /\ LET call == graph.Calls[gi]
           groupFQN == call.SourceTrafficGroup.FQN
           meta == bridgedModeMeta(groupFQN)
       IN /\ ~IsUngoverned(call)
          /\ ~IsDirect(call)
          /\ IF meta.panic
             THEN /\ pc' = "panic"
                  /\ UNCHANGED <<gi, seenNs, trafficSettings, trafficMeta, fetches, results, err>>
             ELSE \E answer \in FetchKinds :
                    LET r == generateBridgedModeTrafficSettings(answer, call, seenNs,
                                trafficSettings, fetches, meta.value)
                    IN /\ trafficMeta' = MapPut(trafficMeta, groupFQN, meta.value)
                       /\ seenNs' = r.seenNs
                       /\ trafficSettings' = r.trafficSettings
                       /\ fetches' = r.fetches
                       /\ IF r.err
                          THEN /\ results' = ResultsOnError(sidecars, r.trafficSettings, trafficMeta')
                               /\ err' = "failed to get traffic settings"
                               /\ pc' = "returned"
                               /\ gi' = gi
                          ELSE IF r.panic
                          THEN pc' = "panic" /\ UNCHANGED <<gi, results, err>>
                          ELSE gi' = gi + 1 /\ UNCHANGED <<pc, results, err>>
    /\ UNCHANGED <<top, ti, graph, lookups, sidecars, output, fqnVars>>

\* generateSettings after the loop: the objects of the sidecars, then of the
\* traffic settings, each map ranged over in an order of Go's choosing
GenFinish ==
    /\ pc = "generate"
    /\ ~graph.isNil
    /\ gi > Len(graph.Calls)
    /\ \E so \in Orders(DOMAIN sidecars), tso \in Orders(DOMAIN trafficSettings) :
          results' = [isNil |-> FALSE,
                      items |-> [i \in 1..Len(so) |-> SidecarObject(sidecars[so[i]])]
                                \o [i \in 1..Len(tso) |->
                                      TrafficSettingObject(trafficSettings[tso[i]], trafficMeta)]]
    /\ err' = ""
    /\ pc' = "returned"
    /\ UNCHANGED <<top, ti, graph, lookups, gi, seenNs, sidecars, trafficSettings,
                   trafficMeta, fetches, output, fqnVars>>

\* RunE after generateSettings: return the error, or print the results
MainReturn ==
    /\ pc = "returned"
    /\ IF err # ""
       THEN pc' = "error" /\ output' = output
       ELSE pc' = "done" /\ output' = results.items
    /\ UNCHANGED <<top, ti, graph, lookups, gi, seenNs, sidecars, trafficSettings,
                   trafficMeta, fetches, results, err, fqnVars>>

Next ==
    \/ BuildSkipEdge
    \/ BuildLookupError
    \/ BuildAppendCall
    \/ BuildReturn
    \/ GenNilGraph
    \/ GenSkipCall
    \/ GenDirect
    \/ GenBridged
    \/ GenFinish
    \/ MainReturn

Spec == Init /\ [][Next]_vars

----------------------------------------------------------------------------
(* The decomposers applied to bounded inputs *)

FqnAtoms == {Slash, "organizations", "tenants", "workspaces", "trafficgroups",
             "namespaces", "a"}

ValAtoms == {Slash, "a", "tenants"}

\* "organizations/O/tenants/T/workspaces/W/trafficgroups/G"
ComposeFQN(O, T, W, G) ==
    JoinAll(<<KeyOrganizations, O, KeyTenants, T, KeyWorkspaces, W, KeyTrafficGroups, G>>)

PipeIdle ==
    /\ pc = "idle"
    /\ top = <<>>
    /\ ti = 1
    /\ graph = [isNil |-> FALSE, Calls |-> <<>>]
    /\ lookups = <<>>
    /\ gi = 1
    /\ seenNs = EmptyMap
    /\ sidecars = EmptyMap
    /\ trafficSettings = EmptyMap
    /\ trafficMeta = EmptyMap
    /\ fetches = <<>>
    /\ results = NilResults
    /\ err = ""
    /\ output = <<>>

FqnInit ==
    /\ PipeIdle
    /\ fpc = "input"
    /\ \/ /\ fqnIn \in StrsUpTo(FqnAtoms, MaxFqnLen)
          /\ fqnArgs = <<>>
       \/ /\ fqnArgs \in [1..4 -> StrsUpTo(ValAtoms, MaxValLen)]
          /\ fqnIn = ComposeFQN(fqnArgs[1], fqnArgs[2], fqnArgs[3], fqnArgs[4])
    /\ metaOut = NotRun(EmptyMeta)
    /\ annOut = NotRun(EmptyMap)
    /\ nsOut = NotRun(<<>>)

Ran(r) == [done |-> TRUE, panic |-> r.panic, value |-> r.value]

CallBridgedModeMeta ==
    /\ fpc = "input"
    /\ metaOut' = Ran(bridgedModeMeta(fqnIn))
    /\ fpc' = "meta"
    /\ UNCHANGED <<pipeVars, fqnIn, fqnArgs, annOut, nsOut>>

CallDirectModeAnnotations ==
    /\ fpc = "meta"
    /\ annOut' = Ran(directModeAnnotations(fqnIn))
    /\ fpc' = "annotations"
    /\ UNCHANGED <<pipeVars, fqnIn, fqnArgs, metaOut, nsOut>>

CallParseNamespace ==
    /\ fpc = "annotations"
    /\ nsOut' = Ran(parseNamespace([FQN |-> "svc", Metrics |-> <<>>,
                                    ServiceDeployments |-> <<[FQN |-> fqnIn]>>]))
    /\ fpc' = "namespace"
    /\ UNCHANGED <<pipeVars, fqnIn, fqnArgs, metaOut, annOut>>

FqnNext ==
    \/ CallBridgedModeMeta
    \/ CallDirectModeAnnotations
    \/ CallParseNamespace

FqnSpec == FqnInit /\ [][FqnNext]_vars

----------------------------------------------------------------------------
(* Properties of the pipeline *)

Governed(call) == ~call.SourceTrafficGroup.isNil

DirectMode(call) == call.SourceTrafficGroup.ConfigMode = "DIRECT"

\* generateSettings has returned a result and no error
GenSucceeded == pc \in {"returned", "done"} /\ err = "" /\ ~results.isNil

\* the host list of the object a call of source namespace s is merged into
HostsFor(call, s) ==
    IF DirectMode(call)
    THEN IF s \in DOMAIN sidecars THEN sidecars[s].Hosts ELSE <<>>
    ELSE IF call.SourceTrafficGroup.FQN \in DOMAIN trafficSettings
         THEN GetHosts(trafficSettings[call.SourceTrafficGroup.FQN])
         ELSE <<>>

GovernedCalls == {i \in 1..Len(graph.Calls) : Governed(graph.Calls[i])}

\* C1: after a successful generation, when a source namespace s and a
\* destination namespace d occur together in more than one call of the same
\* traffic group (calls merged into the same object), the host list of that
\* object holds "d/*" exactly once.
C1_DedupExactlyOnce ==
    GenSucceeded =>
        \A i, j \in GovernedCalls :
            (i # j /\ graph.Calls[i].SourceTrafficGroup = graph.Calls[j].SourceTrafficGroup) =>
                \A k \in 1..Len(graph.Calls[i].SourceNamespaces) :
                \A l \in 1..Len(graph.Calls[i].TargetNamespaces) :
                    LET s == graph.Calls[i].SourceNamespaces[k]
                        d == graph.Calls[i].TargetNamespaces[l]
                    IN (Contains(graph.Calls[j].SourceNamespaces, s)
                        /\ Contains(graph.Calls[j].TargetNamespaces, d))
                       => Count(HostsFor(graph.Calls[i], s), HostOf(d)) = 1

\* C2: after a successful generation, for every governed call and every pair
\* (s, d) of its source and target namespaces, the object of the call (the
\* Sidecar of s in DIRECT mode, else the TrafficSetting of the group) lists
\* "d/*".
C2_EveryCallAllowed ==
    GenSucceeded =>
        \A i \in GovernedCalls :
            \A k \in 1..Len(graph.Calls[i].SourceNamespaces) :
            \A l \in 1..Len(graph.Calls[i].TargetNamespaces) :
                Contains(HostsFor(graph.Calls[i], graph.Calls[i].SourceNamespaces[k]),
                         HostOf(graph.Calls[i].TargetNamespaces[l]))

\* the loop of generateSettings is at a governed call
AtGovernedCall ==
    /\ pc = "generate"
    /\ ~graph.isNil
    /\ gi <= Len(graph.Calls)
    /\ Governed(graph.Calls[gi])

\* C3: the step that processes a DIRECT call leaves the traffic settings
\* alone and fetches nothing; the step that processes a call of any other
\* mode leaves the sidecars alone.
C3_ModeDispatch ==
    [][AtGovernedCall =>
          IF DirectMode(graph.Calls[gi])
          THEN trafficSettings' = trafficSettings /\ fetches' = fetches
          ELSE sidecars' = sidecars]_vars

C3_Witness ==
    /\ pc = "generate"
    /\ gi = 3
    /\ DirectMode(graph.Calls[1])
    /\ Governed(graph.Calls[2]) /\ ~DirectMode(graph.Calls[2])
    /\ DOMAIN sidecars # {}
    /\ DOMAIN trafficSettings # {}

Terminated == pc \in {"done", "error", "panic"}

\* C4: a run in which LookupTrafficGroup failed ends in the reported error
\* state, with nothing handed to the printer.
C4_LookupErrorReported ==
    (graph.isNil /\ Terminated) => (pc = "error" /\ output = <<>>)

FetchFailed == \E i \in 1..Len(fetches) : fetches[i].kind = "err"

\* C5: once a traffic-setting fetch has failed, generateSettings has returned
\* the error with a nil result, and nothing is printed.
C5_FetchErrorNoPartial ==
    FetchFailed =>
        /\ pc \in {"returned", "error"}
        /\ results.isNil
        /\ results.items = <<>>
        /\ err # ""
        /\ output = <<>>

C5_Witness ==
    /\ FetchFailed
    /\ pc = "returned"
    /\ DOMAIN sidecars # {}
    /\ gi = 2

\* the resolved edges among the first n edges of the topology
ResolvedUpTo(n) ==
    {i \in 1..n : top[i].Source \in DOMAIN servicesByID /\ top[i].Target \in DOMAIN servicesByID}

\* C6 (build): while the build has not failed, every lookup made so far,
\* the ones answered with no group included, has appended its call, the call
\* of a lookup answered with no group carries the nil group, and the build is
\* still going or has returned the whole graph.
C6_BuildKeepsUngoverned ==
    ~graph.isNil =>
        /\ Len(graph.Calls) = Len(lookups)
        /\ \A i \in 1..Len(lookups) :
              /\ graph.Calls[i].SourceService = lookups[i].service
              /\ (lookups[i].answer = "nil") <=> graph.Calls[i].SourceTrafficGroup.isNil

\* C6 (generation): the step at a call without traffic group changes none of
\* sidecars, trafficSettings, trafficMeta, seenNs, fetches, and goes on to
\* the next call.
C6_GenSkipsUngoverned ==
    [][(pc = "generate" /\ ~graph.isNil /\ gi <= Len(graph.Calls)
        /\ graph.Calls[gi].SourceTrafficGroup.isNil)
       => /\ UNCHANGED <<seenNs, sidecars, trafficSettings, trafficMeta, fetches, results, err>>
          /\ pc' = "generate"
          /\ gi' = gi + 1]_vars

\* C6: null-governance skip, both halves.
C6_NullGovernanceSkip == []C6_BuildKeepsUngoverned /\ C6_GenSkipsUngoverned

C6_Witness ==
    /\ pc = "generate"
    /\ gi = 3
    /\ graph.Calls[1].SourceTrafficGroup.isNil
    /\ Governed(graph.Calls[2])
    /\ DOMAIN seenNs # {}

\* C7 (step): the step at an edge whose source or target is not in
\* servicesByID changes neither the graph nor the lookups and goes on to the
\* next edge.
C7_SkipStep ==
    [][(pc = "build" /\ ti <= Len(top)
        /\ (top[ti].Source \notin DOMAIN servicesByID
            \/ top[ti].Target \notin DOMAIN servicesByID))
       => /\ UNCHANGED <<graph, lookups>>
          /\ pc' = "build"
          /\ ti' = ti + 1]_vars

\* C7 (rest): there is one lookup per resolved edge met so far, and while the
\* build has not failed one call per resolved edge.
C7_OtherEdgesProcessed ==
    /\ pc = "build" => Len(lookups) = Cardinality(ResolvedUpTo(ti - 1))
    /\ ~graph.isNil => Len(graph.Calls) = Cardinality(ResolvedUpTo(ti - 1))
    /\ (pc # "build" /\ ~graph.isNil) => ti = Len(top) + 1

\* C7: unresolved-edge skip.
C7_UnresolvedEdgeSkip == []C7_OtherEdgesProcessed /\ C7_SkipStep

C7_Witness ==
    /\ pc = "generate"
    /\ ~graph.isNil
    /\ Len(top) = 2
    /\ top[1].Target \notin DOMAIN servicesByID
    /\ Len(graph.Calls) = 1

Synthesized(groupFQN) ==
    \E i \in 1..Len(fetches) : fetches[i].fqn = groupFQN /\ fetches[i].kind = "none"

SeenDests == UNION {{seenNs[s][i] : i \in 1..Len(seenNs[s])} : s \in DOMAIN seenNs}

\* a host list that is the two base hosts followed by merged destinations
SeededWithBase(hosts) ==
    /\ Len(hosts) >= 2
    /\ SubSeq(hosts, 1, 2) = <<HostOf(NsIstioSystem), HostOf(NsXcpMulticluster)>>
    /\ \A i \in 3..Len(hosts) : \E d \in SeenDests : hosts[i] = HostOf(d)

\* C8: in every state the host list of every Sidecar and of every
\* synthesized TrafficSetting is [istio-system/*, xcp-multicluster/*]
\* followed only by merged destinations.
C8_BaseHosts ==
    /\ \A ns \in DOMAIN sidecars : SeededWithBase(sidecars[ns].Hosts)
    /\ \A f \in DOMAIN trafficSettings :
          Synthesized(f) => /\ ~trafficSettings[f].Reachability.isNil
                            /\ SeededWithBase(trafficSettings[f].Reachability.Hosts)

C8_Witness ==
    /\ \E ns \in DOMAIN sidecars : Len(sidecars[ns].Hosts) > 2
    /\ \E f \in DOMAIN trafficSettings :
          Synthesized(f) /\ Len(trafficSettings[f].Reachability.Hosts) > 2

\* the call i of the graph has the pair (s, d) and is governed
HasPair(i, s, d) ==
    /\ Governed(graph.Calls[i])
    /\ Contains(graph.Calls[i].SourceNamespaces, s)
    /\ Contains(graph.Calls[i].TargetNamespaces, d)

\* the host list the traffic setting of a group starts with, from the log of
\* its fetch
StartHosts(groupFQN, log) ==
    LET i == CHOOSE k \in 1..Len(log) : log[k].fqn = groupFQN
    IN IF log[i].kind = "none"
       THEN <<HostOf(NsIstioSystem), HostOf(NsXcpMulticluster)>>
       ELSE GetHosts(RemoteSetting(groupFQN, log[i].kind))

\* d was recorded for every source namespace of the call at gi by an earlier
\* call of the other mode
SeenUnderOtherMode(d) ==
    \A k \in 1..Len(graph.Calls[gi].SourceNamespaces) :
        \E i \in 1..(gi - 1) :
            /\ HasPair(i, graph.Calls[gi].SourceNamespaces[k], d)
            /\ DirectMode(graph.Calls[i]) # DirectMode(graph.Calls[gi])

\* C11: when an earlier call of the other mode has recorded (s, d) for every
\* source namespace s of the call being processed, the step appends no
\* "d/*": the Sidecar of s (DIRECT) or the TrafficSetting of the group
\* (bridged) holds "d/*" as often after the step as before it, a new object
\* as often as the list it starts with.
C11_SharedSeenAcrossModes ==
    [][AtGovernedCall =>
        \A l \in 1..Len(graph.Calls[gi].TargetNamespaces) :
            LET call == graph.Calls[gi]
                d == call.TargetNamespaces[l]
                f == call.SourceTrafficGroup.FQN
            IN SeenUnderOtherMode(d) =>
                IF DirectMode(call)
                THEN \A k \in 1..Len(call.SourceNamespaces) :
                        LET s == call.SourceNamespaces[k]
                        IN /\ s \in DOMAIN sidecars'
                           /\ Count(sidecars'[s].Hosts, HostOf(d)) =
                                Count(IF s \in DOMAIN sidecars THEN sidecars[s].Hosts
                                      ELSE <<HostOf(NsIstioSystem), HostOf(NsXcpMulticluster)>>,
                                      HostOf(d))
                ELSE f \in DOMAIN trafficSettings' =>
                        Count(GetHosts(trafficSettings'[f]), HostOf(d)) =
                            Count(IF f \in DOMAIN trafficSettings
                                  THEN GetHosts(trafficSettings[f])
                                  ELSE StartHosts(f, fetches'),
                                  HostOf(d))]_vars

C11_Witness ==
    /\ pc = "generate"
    /\ gi = 3
    /\ Governed(graph.Calls[1]) /\ ~DirectMode(graph.Calls[1])
    /\ DirectMode(graph.Calls[2])
    /\ HasPair(1, <<"a">>, <<"b">>)
    /\ HasPair(2, <<"a">>, <<"b">>)
    /\ Contains(GetHosts(trafficSettings[graph.Calls[1].SourceTrafficGroup.FQN]), HostOf(<<"b">>))
    /\ ~Contains(sidecars[<<"a">>].Hosts, HostOf(<<"b">>))

\* the mirror case: DIRECT first, bridged second
C11_WitnessBridgedSecond ==
    /\ pc = "generate"
    /\ gi = 3
    /\ DirectMode(graph.Calls[1])
    /\ Governed(graph.Calls[2]) /\ ~DirectMode(graph.Calls[2])
    /\ HasPair(1, <<"a">>, <<"b">>)
    /\ HasPair(2, <<"a">>, <<"b">>)
    /\ ~Contains(GetHosts(trafficSettings[graph.Calls[2].SourceTrafficGroup.FQN]), HostOf(<<"b">>))

\* the group FQNs of the fetches that did not fail
FetchedFQNs == {fetches[i].fqn : i \in {k \in 1..Len(fetches) : fetches[k].kind # "err"}}

\* a is a prefix of b
IsPrefix(a, b) == Len(a) <= Len(b) /\ SubSeq(b, 1, Len(a)) = a

\* C12 (state): no group FQN is fetched twice; the cached settings are
\* exactly those of the fetches that did not fail, each under the FQN it was
\* fetched for, and each is the fetched setting (the default seeded with the
\* two base hosts when the fetch found none) with destinations appended.
C12_FetchedOnceAndCached ==
    /\ \A i, j \in 1..Len(fetches) : fetches[i].fqn = fetches[j].fqn => i = j
    /\ DOMAIN trafficSettings = FetchedFQNs
    /\ \A i \in 1..Len(fetches) :
          fetches[i].kind # "err" =>
            LET f == fetches[i].fqn
                start == IF fetches[i].kind = "none"
                         THEN [Fqn |-> FromMeta(bridgedModeMeta(f).value),
                               Reachability |-> [isNil |-> FALSE, Mode |-> "UNSET",
                                    Hosts |-> <<HostOf(NsIstioSystem), HostOf(NsXcpMulticluster)>>]]
                         ELSE RemoteSetting(f, fetches[i].kind)
            IN /\ trafficSettings[f].Fqn = start.Fqn
               /\ trafficSettings[f].Reachability.isNil = start.Reachability.isNil
               /\ trafficSettings[f].Reachability.Mode = start.Reachability.Mode
               /\ IsPrefix(start.Reachability.Hosts, trafficSettings[f].Reachability.Hosts)

\* C12 (step): the step at a bridged call fetches at most once, and not at
\* all when the group FQN is cached; the cached setting of the group is kept
\* and only grows, the settings of the other groups are untouched.
C12_LaterCallsMerge ==
    [][(AtGovernedCall /\ ~DirectMode(graph.Calls[gi])) =>
        LET f == graph.Calls[gi].SourceTrafficGroup.FQN
        IN /\ Len(fetches') <= Len(fetches) + 1
           /\ f \in DOMAIN trafficSettings =>
                /\ fetches' = fetches
                /\ DOMAIN trafficSettings' = DOMAIN trafficSettings
                /\ trafficSettings'[f].Fqn = trafficSettings[f].Fqn
                /\ IsPrefix(GetHosts(trafficSettings[f]), GetHosts(trafficSettings'[f]))
           /\ \A g \in DOMAIN trafficSettings :
                g # f => (g \in DOMAIN trafficSettings' /\ trafficSettings'[g] = trafficSettings[g])]_vars

\* C12: one fetch per group FQN, cached, later calls merge into the cache.
C12_FetchOncePerGroup == []C12_FetchedOnceAndCached /\ C12_LaterCallsMerge

C12_Witness ==
    /\ pc = "generate"
    /\ gi = 3
    /\ Governed(graph.Calls[1]) /\ ~DirectMode(graph.Calls[1])
    /\ graph.Calls[2].SourceTrafficGroup = graph.Calls[1].SourceTrafficGroup
    /\ graph.Calls[2].TargetNamespaces # graph.Calls[1].TargetNamespaces
    /\ Len(fetches) = 1
    /\ fetches[1].kind = "global"
    /\ GetHosts(trafficSettings[fetches[1].fqn]) = <<HostOf(NsB), HostOf(NsIstioSystem)>>

\* the pair (s, d) is not recorded in seenNs
NotYetSeen(s, d) == s \notin DOMAIN seenNs \/ ~Contains(seenNs[s], d)

\* C13: the step at a bridged call whose fetch, if any, did not fail
\* completes without a panic whatever setting is cached, and afterwards the
\* cached TrafficSetting of the group lists "d/*" for every pair (s, d) of the
\* call that was not yet seen.
C13_BridgedMergeNeverFails ==
    [][(AtGovernedCall /\ ~DirectMode(graph.Calls[gi])
        /\ \A i \in 1..Len(fetches') : fetches'[i].kind # "err") =>
        LET call == graph.Calls[gi]
            f == call.SourceTrafficGroup.FQN
        IN /\ pc' # "panic"
           /\ \A k \in 1..Len(call.SourceNamespaces) :
              \A l \in 1..Len(call.TargetNamespaces) :
                 NotYetSeen(call.SourceNamespaces[k], call.TargetNamespaces[l]) =>
                    /\ f \in DOMAIN trafficSettings'
                    /\ Contains(GetHosts(trafficSettings'[f]),
                                HostOf(call.TargetNamespaces[l]))]_vars

TrafficSettingItems ==
    {i \in 1..Len(results.items) : results.items[i].Kind = "TrafficSetting"}

\* C14: after a successful generation no emitted TrafficSetting object has
\* nil metadata, and the object of the setting accumulated under a group FQN
\* carries the organization, tenant, workspace and group of that FQN.
C14_TrafficSettingMetadata ==
    GenSucceeded =>
        /\ \A i \in TrafficSettingItems : ~results.items[i].Metadata.isNil
        /\ \A f \in DOMAIN trafficSettings :
              \E i \in TrafficSettingItems :
                 /\ results.items[i].Spec = trafficSettings[f]
                 /\ results.items[i].Metadata = bridgedModeMeta(f).value

----------------------------------------------------------------------------
(* Properties of the decomposers *)

\* C9: bridgedModeMeta, directModeAnnotations and parseNamespace return
\* normally on every string.
C9_DecomposeNeverFails ==
    /\ metaOut.done => ~metaOut.panic
    /\ annOut.done => ~annOut.panic
    /\ nsOut.done => ~nsOut.panic

RoundTripHolds ==
    /\ ~metaOut.panic
    /\ metaOut.value = [EmptyMeta EXCEPT !.Organization = fqnArgs[1], !.Tenant = fqnArgs[2],
                                         !.Workspace = fqnArgs[3], !.Group = fqnArgs[4]]
    /\ ~annOut.panic
    /\ DOMAIN annOut.value = {AnnOrganization, AnnTenant, AnnWorkspace, AnnTrafficGroup}
    /\ annOut.value[AnnOrganization] = fqnArgs[1]
    /\ annOut.value[AnnTenant] = fqnArgs[2]
    /\ annOut.value[AnnWorkspace] = fqnArgs[3]
    /\ annOut.value[AnnTrafficGroup] = fqnArgs[4]

\* C10 as stated: for all values O, T, W, G the decomposition of the composed
\* FQN gives the four values back, as metadata and as annotations.
C10_RoundTripAllValues ==
    (fqnArgs # <<>> /\ annOut.done) => RoundTripHolds

\* C10 amended: for all values O, T, W, G that hold no "/", the decomposition
\* of the composed FQN gives the four values back, as metadata and as
\* annotations.
C10_RoundTripSlashFree ==
    (fqnArgs # <<>> /\ annOut.done /\ \A i \in 1..4 : ~HasSlash(fqnArgs[i]))
        => RoundTripHolds

C10_Witness ==
    /\ fqnArgs # <<>>
    /\ annOut.done
    /\ \A i \in 1..4 : ~HasSlash(fqnArgs[i])
    /\ fqnArgs[1] = <<"tenants">>
    /\ fqnArgs[2] = <<"a">>
    /\ metaOut.value.Tenant = <<"a">>

====
